---------------------------- MODULE Spec2Model ----------------------------
(***************************************************************************)
(* Zenless Collector (src/Main.py): the scrape -> filter -> dedupe -> sort *)
(* pipeline of fetch_codes, the JSON cache file, and the "Fetch Codes"     *)
(* button handler.                                                         *)
(*                                                                         *)
(* Text is modelled as a sequence of one-character strings, so that the    *)
(* substring tests, the regular expressions, strptime and the JSON         *)
(* encoder/decoder are computed on characters, as the code computes them.  *)
(***************************************************************************)
EXTENDS Integers, Sequences, FiniteSets, TLC

VARIABLES rows, result, shown, step,
          file, lastWriter, pc, status, codes, cached, new_codes, display, ui

vars == <<rows, result, shown, step,
          file, lastWriter, pc, status, codes, cached, new_codes, display, ui>>

---------------------------------------------------------------------------
(* Characters and strings (Python str methods used by the code).           *)

DigitSeq == <<"0","1","2","3","4","5","6","7","8","9">>

LowerAlpha == <<"a","b","c","d","e","f","g","h","i","j","k","l","m","n","o","p","q","r","s","t","u","v","w","x","y","z">>

UpperAlpha == <<"A","B","C","D","E","F","G","H","I","J","K","L","M","N","O","P","Q","R","S","T","U","V","W","X","Y","Z">>

Range(s) == {s[i] : i \in DOMAIN s}

IsDigit(c) == c \in Range(DigitSeq)

DigitVal(c) == (CHOOSE i \in DOMAIN DigitSeq : DigitSeq[i] = c) - 1

IsSpace(c) == c \in {" ", "\t", "\n"}

(* \w of the re module, for the \b assertions of code_pattern *)
IsWordChar(c) == c \in Range(LowerAlpha) \cup Range(UpperAlpha) \cup Range(DigitSeq) \cup {"_"}

lower_char(c) ==
    IF c \in Range(UpperAlpha)
    THEN LowerAlpha[CHOOSE i \in DOMAIN UpperAlpha : UpperAlpha[i] = c]
    ELSE c

upper_char(c) ==
    IF c \in Range(LowerAlpha)
    THEN UpperAlpha[CHOOSE i \in DOMAIN LowerAlpha : LowerAlpha[i] = c]
    ELSE c

lower(txt) == [i \in 1..Len(txt) |-> lower_char(txt[i])]

upper(txt) == [i \in 1..Len(txt) |-> upper_char(txt[i])]

(* Python's "pat in txt" *)
Contains(txt, pat) ==
    \E i \in 1..(Len(txt) - Len(pat) + 1) : SubSeq(txt, i, i + Len(pat) - 1) = pat

(* txt[i:] *)
Tail_from(txt, i) == SubSeq(txt, i, Len(txt))

(* number of leading characters of txt, from position i, that satisfy \s *)
RECURSIVE SpaceRun(_, _)
SpaceRun(txt, i) ==
    IF i <= Len(txt) /\ IsSpace(txt[i]) THEN 1 + SpaceRun(txt, i + 1) ELSE 0

(* number of leading characters of txt, from position i, that satisfy \d *)
RECURSIVE DigitRun(_, _)
DigitRun(txt, i) ==
    IF i <= Len(txt) /\ IsDigit(txt[i]) THEN 1 + DigitRun(txt, i + 1) ELSE 0

(* int() of a string of decimal digits *)
RECURSIVE int(_)
int(ds) ==
    IF Len(ds) = 0 THEN 0
    ELSE 10 * int(SubSeq(ds, 1, Len(ds) - 1)) + DigitVal(ds[Len(ds)])

(* str.strip() *)
RECURSIVE strip(_)
strip(txt) ==
    IF Len(txt) = 0 THEN txt
    ELSE IF IsSpace(txt[1]) THEN strip(Tail(txt))
    ELSE IF IsSpace(txt[Len(txt)]) THEN strip(SubSeq(txt, 1, Len(txt) - 1))
    ELSE txt

---------------------------------------------------------------------------
(* Regex patterns, src/Main.py:16-17                                       *)

CodeMinLen == 6

CodeMaxLen == 24

PolyMaxDigits == 4

NoMatch == <<"-no-match-">>

(* code_pattern.search(txt): \b[A-Z0-9]{6,24}\b, leftmost match, greedy *)
code_pattern_search(txt) ==
    LET InClass(c) == c \in Range(UpperAlpha) \cup Range(DigitSeq)
        Boundary(i) ==  \* \b between txt[i-1] and txt[i]
            LET before == i > 1 /\ IsWordChar(txt[i - 1])
                after  == i <= Len(txt) /\ IsWordChar(txt[i])
            IN  before # after
        MatchAt(i, n) ==
            /\ i + n - 1 <= Len(txt)
            /\ \A k \in i..(i + n - 1) : InClass(txt[k])
            /\ Boundary(i)
            /\ Boundary(i + n)
        starts == {i \in 1..Len(txt) : \E n \in CodeMinLen..CodeMaxLen : MatchAt(i, n)}
    IN  IF starts = {} THEN NoMatch
        ELSE LET i == CHOOSE a \in starts : \A b \in starts : a <= b
                 n == CHOOSE a \in CodeMinLen..CodeMaxLen :
                          /\ MatchAt(i, a)
                          /\ \A b \in CodeMinLen..CodeMaxLen : MatchAt(i, b) => b <= a
             IN  SubSeq(txt, i, i + n - 1)

Polychrome == <<"p","o","l","y","c","h","r","o","m","e">>

(* poly_pattern.search(txt).group(1): (\d{1,4})\s*Polychrome[s]?, IGNORECASE *)
poly_pattern_search(txt) ==
    LET MatchAt(i, k) ==
            /\ i + k - 1 <= Len(txt)
            /\ \A j \in i..(i + k - 1) : IsDigit(txt[j])
            /\ \E w \in 0..SpaceRun(txt, i + k) :
                   LET q == i + k + w
                   IN  /\ q + Len(Polychrome) - 1 <= Len(txt)
                       /\ lower(SubSeq(txt, q, q + Len(Polychrome) - 1)) = Polychrome
        starts == {i \in 1..Len(txt) : \E k \in 1..PolyMaxDigits : MatchAt(i, k)}
    IN  IF starts = {} THEN NoMatch
        ELSE LET i == CHOOSE a \in starts : \A b \in starts : a <= b
                 k == CHOOSE a \in 1..PolyMaxDigits :
                          /\ MatchAt(i, a)
                          /\ \A b \in 1..PolyMaxDigits : MatchAt(i, b) => b <= a
             IN  SubSeq(txt, i, i + k - 1)

---------------------------------------------------------------------------
(* Dates: datetime.strptime and parse_date, src/Main.py:19-36              *)

MonthNames == <<
    <<"J","a","n","u","a","r","y">>, <<"F","e","b","r","u","a","r","y">>, <<"M","a","r","c","h">>, <<"A","p","r","i","l">>, <<"M","a","y">>, <<"J","u","n","e">>,
    <<"J","u","l","y">>, <<"A","u","g","u","s","t">>, <<"S","e","p","t","e","m","b","e","r">>, <<"O","c","t","o","b","e","r">>, <<"N","o","v","e","m","b","e","r">>, <<"D","e","c","e","m","b","e","r">> >>

MonthAbbrs == <<
    <<"J","a","n">>, <<"F","e","b">>, <<"M","a","r">>, <<"A","p","r">>, <<"M","a","y">>, <<"J","u","n">>,
    <<"J","u","l">>, <<"A","u","g">>, <<"S","e","p">>, <<"O","c","t">>, <<"N","o","v">>, <<"D","e","c">> >>

(* parse_date's three kinds of result: None, "EXPIRED", a date *)
NoneValue == [tag |-> "None", y |-> 0, m |-> 0, d |-> 0]

EXPIRED == [tag |-> "EXPIRED", y |-> 0, m |-> 0, d |-> 0]

Date(y, m, d) == [tag |-> "date", y |-> y, m |-> m, d |-> d]

(* strptime raised ValueError *)
ValueError == [tag |-> "ValueError", y |-> 0, m |-> 0, d |-> 0]

IsLeap(y) == (y % 4 = 0) /\ ((y % 100 # 0) \/ (y % 400 = 0))

DaysInMonth(y, m) ==
    IF m = 2 THEN (IF IsLeap(y) THEN 29 ELSE 28)
    ELSE IF m \in {4, 6, 9, 11} THEN 30 ELSE 31

(* datetime(y, m, d): the range checks of the constructor *)
MakeDate(y, m, d) ==
    IF y >= 1 /\ m \in 1..12 /\ d >= 1 /\ d <= DaysInMonth(y, m)
    THEN Date(y, m, d) ELSE ValueError

(* date.__lt__ *)
DateLess(a, b) ==
    \/ a.y < b.y
    \/ a.y = b.y /\ a.m < b.m
    \/ a.y = b.y /\ a.m = b.m /\ a.d < b.d

(* %d of strptime at position i: 3[0-1]|[1-2]\d|0[1-9]|[1-9]| [1-9];      *)
(* the set of lengths the directive can consume                            *)
DayLens(txt, i) ==
    {n \in 1..2 :
        /\ i + n - 1 <= Len(txt)
        /\ \/ n = 2 /\ IsDigit(txt[i]) /\ IsDigit(txt[i + 1])
                    /\ int(SubSeq(txt, i, i + 1)) \in 1..31
           \/ n = 2 /\ txt[i] = " " /\ IsDigit(txt[i + 1]) /\ txt[i + 1] # "0"
           \/ n = 1 /\ IsDigit(txt[i]) /\ txt[i] # "0"}

(* %m of strptime at position i: 1[0-2]|0[1-9]|[1-9] *)
MonthLens(txt, i) ==
    {n \in 1..2 :
        /\ i + n - 1 <= Len(txt)
        /\ \/ n = 2 /\ IsDigit(txt[i]) /\ IsDigit(txt[i + 1])
                    /\ int(SubSeq(txt, i, i + 1)) \in 1..12
           \/ n = 1 /\ IsDigit(txt[i]) /\ txt[i] # "0"}

(* "%B %d, %Y" and "%b %d, %Y": name \s+ day , \s+ yyyy, whole string,    *)
(* names compared without regard to case; \s+ is greedy, so the day starts *)
(* after the last space that follows the name                              *)
strptime_named(txt, names) ==
    LET DayAt(m) == Len(names[m]) + 1 + SpaceRun(txt, Len(names[m]) + 1)
        YearAt(m, n) == DayAt(m) + n + 1 + SpaceRun(txt, DayAt(m) + n + 1)
        parses ==
          {<<m, n>> \in (1..12) \X (1..2) :
              /\ Len(names[m]) <= Len(txt)
              /\ lower(SubSeq(txt, 1, Len(names[m]))) = lower(names[m])
              /\ SpaceRun(txt, Len(names[m]) + 1) >= 1
              /\ n \in DayLens(txt, DayAt(m))
              /\ DayAt(m) + n <= Len(txt)
              /\ txt[DayAt(m) + n] = ","
              /\ SpaceRun(txt, DayAt(m) + n + 1) >= 1
              /\ YearAt(m, n) + 3 = Len(txt)
              /\ \A k \in YearAt(m, n)..(YearAt(m, n) + 3) : IsDigit(txt[k])}
    IN  IF parses = {} THEN ValueError
        ELSE LET p == CHOOSE q \in parses : TRUE
             IN  MakeDate(int(SubSeq(txt, YearAt(p[1], p[2]), YearAt(p[1], p[2]) + 3)),
                          p[1],
                          int(SubSeq(txt, DayAt(p[1]), DayAt(p[1]) + p[2] - 1)))

(* "%Y-%m-%d": yyyy - month - day, whole string *)
strptime_iso(txt) ==
    LET parses ==
          {<<n1, n2>> \in (1..2) \X (1..2) :
              /\ 4 + 1 + n1 + 1 + n2 = Len(txt)
              /\ \A k \in 1..4 : IsDigit(txt[k])
              /\ txt[5] = "-"
              /\ n1 \in MonthLens(txt, 6)
              /\ txt[6 + n1] = "-"
              /\ n2 \in DayLens(txt, 7 + n1)}
    IN  IF parses = {} THEN ValueError
        ELSE LET p == CHOOSE q \in parses : TRUE
             IN  MakeDate(int(SubSeq(txt, 1, 4)),
                          int(SubSeq(txt, 6, 5 + p[1])),
                          int(strip(SubSeq(txt, 7 + p[1], Len(txt)))))

(* date_formats = ["%B %d, %Y", "%b %d, %Y", "%Y-%m-%d"] *)
date_formats == <<"%B %d, %Y", "%b %d, %Y", "%Y-%m-%d">>

strptime(txt, fmt) ==
    IF fmt = "%B %d, %Y" THEN strptime_named(txt, MonthNames)
    ELSE IF fmt = "%b %d, %Y" THEN strptime_named(txt, MonthAbbrs)
    ELSE strptime_iso(txt)

(* re.sub(r"\[\d+\]", "", txt) *)
RECURSIVE strip_footnotes(_)
strip_footnotes(txt) ==
    IF Len(txt) = 0 THEN txt
    ELSE LET n == DigitRun(txt, 2)
         IN  IF txt[1] = "[" /\ n >= 1 /\ n + 2 <= Len(txt) /\ txt[n + 2] = "]"
             THEN strip_footnotes(Tail_from(txt, n + 3))
             ELSE <<txt[1]>> \o strip_footnotes(Tail(txt))

(* the markers of src/Main.py:28; the third one is the three characters    *)
(* U+00E2 U+20AC U+201D as they stand in the source file                   *)
NoExpiryMarkers == {
    <<"n","o"," ","e","x","p","i","r","y">>, <<"n","o","n","e">>, <<"U+00E2", "U+20AC", "U+201D">>, <<"-">>, <<"t","b","d">>, <<"u","n","k","n","o","w","n">> }

Expired == <<"e","x","p","i","r","e","d">>

parse_date(txt) ==
    IF Len(txt) = 0 THEN NoneValue
    ELSE LET txt_low == lower(txt)
         IN  IF Contains(txt_low, Expired) THEN EXPIRED
             ELSE IF \E x \in NoExpiryMarkers : Contains(txt_low, x) THEN NoneValue
             ELSE LET txt_clean == strip(strip_footnotes(txt))
                      ok == {i \in DOMAIN date_formats :
                                strptime(txt_clean, date_formats[i]) # ValueError}
                  IN  IF ok = {} THEN NoneValue
                      ELSE strptime(txt_clean,
                               date_formats[CHOOSE i \in ok : \A j \in ok : i <= j])

---------------------------------------------------------------------------
(* fetch_codes, src/Main.py:38-95                                          *)

(* datetime.today().date(): the day of the run *)
Today == Date(2026, 11, 5)

Pair(c, p) == [c |-> c, p |-> p]

(* cells[k].get_text(" ", strip=True) if len(cells) > k else "" *)
cell_text(cells, k) == IF Len(cells) >= k THEN strip(cells[k]) ELSE <<>>

(* one iteration of the loop over the rows: the pairs it appends to codes  *)
row_codes(cells) ==
    IF Len(cells) = 0 THEN <<>>
    ELSE LET code_txt   == cell_text(cells, 1)
             reward_txt == cell_text(cells, 2)
             expiry_txt == cell_text(cells, 3)
             mcode      == code_pattern_search(upper(code_txt))
             expiry     == parse_date(expiry_txt)
             mp         == poly_pattern_search(reward_txt)
         IN  IF mcode = NoMatch THEN <<>>
             ELSE IF expiry = EXPIRED THEN <<>>
             ELSE IF expiry # NoneValue /\ DateLess(expiry, Today) THEN <<>>
             ELSE IF mp = NoMatch THEN <<>>
             ELSE IF int(mp) > 0 THEN <<Pair(mcode, int(mp))>>
             ELSE <<>>

(* Inputs: table rows, each a sequence of cell texts.                      *)

MaxRows == 3

CoreCodeTexts == { <<"A","A","A","A","A","A">>, <<"b","b","b","b","b","b">> }

CoreRewardTexts == { <<"5","0"," ","P","o","l","y","c","h","r","o","m","e">>, <<"1","0","0"," ","p","o","l","y","c","h","r","o","m","e","s">>, <<"0"," ","P","o","l","y","c","h","r","o","m","e">> }

CoreExpiryTexts == { <<>>, <<"E","x","p","i","r","e","d">>, <<"J","a","n","u","a","r","y"," ","1",","," ","2","0","2","0">> }

CoreRows == {<<c, r, e>> : c \in CoreCodeTexts, r \in CoreRewardTexts, e \in CoreExpiryTexts}

RichCodeTexts == {
    <<"Z","Z","Z","2","0","2","4">>, <<"c","o","d","e",":"," ","a","b","c","d","e","f","1","2","3"," ","(","n","e","w",")">>, <<"A","B","C","D","E">>, <<"A","B","C","_","D","E","F","G","H","I">>,
    <<"A","B","C","D","E","F","G","H","I","J","K","L","M","N","O","P","Q","R","S","T","U","V","W","X","Y">> }

RichRewardTexts == {
    <<"3","0","0"," ","P","o","l","y","c","h","r","o","m","e","s">>, <<"6","0","P","o","l","y","c","h","r","o","m","e"," ","x","2">>, <<"1","2","3","4","5"," ","P","o","l","y","c","h","r","o","m","e">>,
    <<"0"," ","P","o","l","y","c","h","r","o","m","e">>, <<"D","e","n","n","i","e","s"," ","x","5","0","0","0">>, <<>> }

RichExpiryTexts == {
    <<>>, <<"E","X","P","I","R","E","D">>, <<"E","x","p","i","r","e","d"," ","o","n"," ","M","a","y"," ","3",","," ","2","0","3","0">>, <<"T","B","D">>, <<"U","n","k","n","o","w","n">>, <<"s","o","o","n">>,
    <<"J","a","n","u","a","r","y"," ","1",","," ","2","0","2","0">>, <<"d","e","c","e","m","b","e","r"," ","3","1",","," ","2","0","9","9">>, <<"N","o","v"," ","4",","," ","2","0","2","6">>, <<"N","o","v"," ","5",","," ","2","0","2","6">>,
    <<"J","a","n"," ","1",","," ","2","0","2","0","[","1","]">>, <<"F","e","b","r","u","a","r","y"," ","3","0",","," ","2","0","2","0">>, <<"M","a","y"," "," ","9",","," ","2","0","2","0">>,
    <<"2","0","2","0","-","0","1","-","0","1">>, <<"2","0","9","9","-","1","2","-","3","1">>, <<"2","0","2","0","-","1","-","1","[","2","]">> }

RichRows ==
    {<<c, r, e>> : c \in RichCodeTexts, r \in RichRewardTexts, e \in RichExpiryTexts}
    \cup {<<>>, << <<"Z","Z","Z","2","0","2","4">> >>, << <<"Z","Z","Z","2","0","2","4">>, <<"3","0","0"," ","P","o","l","y","c","h","r","o","m","e","s">> >>}

(* row_codes of every input row, computed once *)
RowCodes == [r \in CoreRows \cup RichRows |-> row_codes(r)]

(* the list codes after the loop *)
RECURSIVE collect(_)
collect(rs) ==
    IF Len(rs) = 0 THEN <<>>
    ELSE collect(SubSeq(rs, 1, Len(rs) - 1)) \o RowCodes[rs[Len(rs)]]

Max(a, b) == IF a >= b THEN a ELSE b

(* a variant that keeps the reward of the last row of a code *)
dict_put_last(final_codes, c, p) ==
    IF \E i \in DOMAIN final_codes : final_codes[i].c = c
    THEN [i \in DOMAIN final_codes |->
             IF final_codes[i].c = c THEN Pair(c, p) ELSE final_codes[i]]
    ELSE Append(final_codes, Pair(c, p))

(* final_codes[c] = max(p, final_codes[c]) if c in final_codes else p;     *)
(* the dict keeps its keys in insertion order                              *)
dict_put_max(final_codes, c, p) ==
    IF \E i \in DOMAIN final_codes : final_codes[i].c = c
    THEN [i \in DOMAIN final_codes |->
             IF final_codes[i].c = c THEN Pair(c, Max(p, final_codes[i].p))
             ELSE final_codes[i]]
    ELSE Append(final_codes, Pair(c, p))

RECURSIVE dedupe(_)
dedupe(cs) ==
    IF Len(cs) = 0 THEN <<>>
    ELSE LET last == cs[Len(cs)]
         IN  dict_put_max(dedupe(SubSeq(cs, 1, Len(cs) - 1)), last.c, last.p)

(* sorted(items, key=lambda x: sign * x[1]): stable; x goes after every    *)
(* element whose key is not greater than its own                           *)
RECURSIVE insert_by_key(_, _, _)
insert_by_key(sorted, x, sign) ==
    IF Len(sorted) = 0 THEN <<x>>
    ELSE IF sign * x.p < sign * sorted[Len(sorted)].p
         THEN Append(insert_by_key(SubSeq(sorted, 1, Len(sorted) - 1), x, sign),
                     sorted[Len(sorted)])
         ELSE Append(sorted, x)

RECURSIVE sorted_by(_, _)
sorted_by(items, sign) ==
    IF Len(items) = 0 THEN <<>>
    ELSE insert_by_key(sorted_by(SubSeq(items, 1, Len(items) - 1), sign),
                       items[Len(items)], sign)

(* sorted(final_codes.items(), key=lambda x: -x[1]) *)
sort_descending(items) == sorted_by(items, 0 - 1)

RECURSIVE Reverse(_)
Reverse(q) == IF Len(q) = 0 THEN <<>> ELSE <<q[Len(q)]>> \o Reverse(SubSeq(q, 1, Len(q) - 1))

SortOptions == <<"Descending", "Ascending">>

(* st.selectbox(label, options) in a run that creates the widget: the      *)
(* first option                                                            *)
selectbox(options) == options[1]

(* a variant that sorts ascending and reverses the outcome *)
display_sorted_naive(cs, sort_order) ==
    IF sort_order = "Descending" THEN Reverse(sorted_by(cs, 1))
    ELSE sorted_by(cs, 1)

(* sorted(codes, key=lambda x: x[1], reverse=(sort_order == "Descending")); *)
(* reverse=True sorts the reversed list stably and reverses the outcome     *)
display_sorted(cs, sort_order) ==
    IF sort_order = "Descending" THEN Reverse(sorted_by(Reverse(cs), 1))
    ELSE sorted_by(cs, 1)

(* a page: what requests.get and soup.select_one deliver *)
HttpError == [kind |-> "http_error", rows |-> <<>>]

NoTable == [kind |-> "no_table", rows |-> <<>>]

Table(rs) == [kind |-> "table", rows |-> rs]

fetch_codes(page) ==
    IF page.kind = "http_error" THEN <<>>
    ELSE IF page.kind = "no_table" THEN <<>>
    ELSE sort_descending(dedupe(collect(page.rows)))

---------------------------------------------------------------------------
(* The cache file: json.dump / json.load, load_cache and save_cache,       *)
(* src/Main.py:98-106.  A file is absent or holds a sequence of characters.*)

Sessions == {"s1", "s2"}

AbsentFile == [exists |-> FALSE, data |-> <<>>]

(* d[c] = p for a dict kept as its items in insertion order *)
dict_put(d, c, p) ==
    IF \E i \in DOMAIN d : d[i].c = c
    THEN [i \in DOMAIN d |-> IF d[i].c = c THEN Pair(c, p) ELSE d[i]]
    ELSE Append(d, Pair(c, p))

(* {c: p for c, p in codes} *)
RECURSIVE dict_of(_)
dict_of(cs) ==
    IF Len(cs) = 0 THEN <<>>
    ELSE dict_put(dict_of(SubSeq(cs, 1, Len(cs) - 1)), cs[Len(cs)].c, cs[Len(cs)].p)

(* c in d *)
has_key(d, c) == \E i \in DOMAIN d : d[i].c = c

(* str(n) for n >= 0 *)
RECURSIVE int_str(_)
int_str(n) ==
    IF n < 10 THEN <<DigitSeq[n + 1]>>
    ELSE int_str(n \div 10) \o <<DigitSeq[(n % 10) + 1]>>

(* json.dumps of a dict of str -> int: {"K": v, "K2": v2} *)
RECURSIVE json_members(_)
json_members(d) ==
    IF Len(d) = 0 THEN <<>>
    ELSE (IF Len(d) = 1 THEN <<>> ELSE json_members(SubSeq(d, 1, Len(d) - 1)) \o <<","," ">>)
         \o <<"\"">> \o d[Len(d)].c \o <<"\"",":"," ">> \o int_str(d[Len(d)].p)

json_dumps(d) == <<"{">> \o json_members(d) \o <<"}">>

JSONDecodeError == [ok |-> FALSE, dict |-> <<>>, next |-> 0]

skip_ws(txt, i) == i + SpaceRun(txt, i)

(* position of the first double quote of txt at or after i, 0 if none *)
RECURSIVE find_quote(_, _)
find_quote(txt, i) ==
    IF i > Len(txt) THEN 0
    ELSE IF txt[i] = "\"" THEN i
    ELSE find_quote(txt, i + 1)

(* the members of a JSON object from position i (the opening quote of a    *)
(* key) up to and including the closing brace; keys are plain strings and   *)
(* values are unsigned integers, which is all that json.dump writes here    *)
RECURSIVE parse_members(_, _, _)
parse_members(txt, i, acc) ==
    IF i > Len(txt) \/ txt[i] # "\"" THEN JSONDecodeError
    ELSE LET j == find_quote(txt, i + 1)
         IN  IF j = 0 \/ "\\" \in Range(SubSeq(txt, i + 1, j - 1)) THEN JSONDecodeError
             ELSE LET k == skip_ws(txt, j + 1)
                  IN  IF k > Len(txt) \/ txt[k] # ":" THEN JSONDecodeError
                      ELSE LET v == skip_ws(txt, k + 1)
                               n == DigitRun(txt, v)
                           IN  IF n = 0 \/ (n > 1 /\ txt[v] = "0") THEN JSONDecodeError
                               ELSE LET e == skip_ws(txt, v + n)
                                        acc2 == dict_put(acc, SubSeq(txt, i + 1, j - 1),
                                                         int(SubSeq(txt, v, v + n - 1)))
                                    IN  IF e > Len(txt) THEN JSONDecodeError
                                        ELSE IF txt[e] = "}"
                                             THEN [ok |-> TRUE, dict |-> acc2, next |-> e + 1]
                                        ELSE IF txt[e] = ","
                                             THEN parse_members(txt, skip_ws(txt, e + 1), acc2)
                                        ELSE JSONDecodeError

(* json.loads: one object, then nothing but white space ("Extra data") *)
json_loads(txt) ==
    LET i == skip_ws(txt, 1)
    IN  IF i > Len(txt) \/ txt[i] # "{" THEN JSONDecodeError
        ELSE LET j == skip_ws(txt, i + 1)
                 r == IF j <= Len(txt) /\ txt[j] = "}"
                      THEN [ok |-> TRUE, dict |-> <<>>, next |-> j + 1]
                      ELSE parse_members(txt, j, <<>>)
             IN  IF r.ok /\ skip_ws(txt, r.next) > Len(txt) THEN r ELSE JSONDecodeError

(* load_cache(): {} when the file does not exist, else json.load, which    *)
(* raises on a text that is not JSON                                       *)
load_cache(f) ==
    IF f.exists THEN json_loads(f.data)
    ELSE [ok |-> TRUE, dict |-> <<>>, next |-> 0]

(* open(CACHE_FILE, "w"): creates or truncates *)
open_w(f) == [exists |-> TRUE, data |-> <<>>]

(* the write of the buffered text when the file is closed: at offset 0 of  *)
(* this handle, over whatever the file holds by then                       *)
write_close(f, text) ==
    [exists |-> TRUE, data |-> text \o SubSeq(f.data, Len(text) + 1, Len(f.data))]

(* a variant that adds the new mapping to the one the file holds *)
save_cache_merged(f, d) ==
    LET old == IF load_cache(f).ok THEN load_cache(f).dict ELSE <<>>
        Added(x) == ~has_key(old, x.c)
        merged == [i \in DOMAIN old |->
                      IF has_key(d, old[i].c)
                      THEN d[CHOOSE j \in DOMAIN d : d[j].c = old[i].c]
                      ELSE old[i]] \o SelectSeq(d, Added)
    IN  write_close(open_w(f), json_dumps(merged))

(* a variant that leaves the file alone when there is nothing to save *)
save_cache_nonempty(f, d) ==
    IF d = <<>> THEN f ELSE write_close(open_w(f), json_dumps(d))

(* save_cache(data) run without interruption *)
save_cache(f, d) == write_close(open_w(f), json_dumps(d))

---------------------------------------------------------------------------
(* Pages drawn from the input rows.                                        *)

RECURSIVE SeqsUpTo(_, _)
SeqsUpTo(S, n) ==
    IF n = 0 THEN {<<>>}
    ELSE LET shorter == SeqsUpTo(S, n - 1)
         IN  shorter \cup {Append(s, x) : s \in {t \in shorter : Len(t) = n - 1}, x \in S}

Pages == {HttpError, NoTable}
         \cup {Table(rs) : rs \in SeqsUpTo(CoreRows, MaxRows)}
         \cup {Table(<<r>>) : r \in RichRows}

MaxHandlerRows == 2

HandlerRows ==
    {r \in CoreRows : r[2] # <<"0"," ","P","o","l","y","c","h","r","o","m","e">> /\ r[3] = <<>>}
    \cup {<< <<"A","A","A","A","A","A">>, <<"1","0","0"," ","p","o","l","y","c","h","r","o","m","e","s">>, <<"E","x","p","i","r","e","d">> >>}

HandlerPages == {HttpError, NoTable}
                \cup {Table(rs) : rs \in SeqsUpTo(HandlerRows, MaxHandlerRows)}

---------------------------------------------------------------------------
(* fetch_codes and the display sort applied to a page.                     *)

InitHandlerIdle ==
    /\ file = AbsentFile
    /\ lastWriter = "none"
    /\ pc = [s \in Sessions |-> "idle"]
    /\ status = [s \in Sessions |-> "none"]
    /\ codes = [s \in Sessions |-> <<>>]
    /\ cached = [s \in Sessions |-> <<>>]
    /\ new_codes = [s \in Sessions |-> <<>>]
    /\ display = [s \in Sessions |-> <<>>]
    /\ ui = [s \in Sessions |-> "none"]

handlerVars == <<file, lastWriter, pc, status, codes, cached, new_codes, display, ui>>

InitFetch ==
    /\ rows \in Pages
    /\ result = <<>>
    /\ shown = <<>>
    /\ step = "page"
    /\ InitHandlerIdle

ApplyFetch ==
    /\ step = "page"
    /\ result' = fetch_codes(rows)
    /\ step' = "fetched"
    /\ UNCHANGED <<rows, shown, handlerVars>>

ApplyDisplay ==
    /\ step = "fetched"
    /\ result # <<>>
    /\ shown' = display_sorted(result, selectbox(SortOptions))
    /\ step' = "shown"
    /\ UNCHANGED <<rows, result, handlerVars>>

NextFetch == ApplyFetch \/ ApplyDisplay

SpecFetch == InitFetch /\ [][NextFetch]_vars

---------------------------------------------------------------------------
(* The "Fetch Codes" button handler, src/Main.py:113-133.                  *)

pureVars == <<rows, result, shown, step>>

InitPureIdle ==
    /\ rows = NoTable
    /\ result = <<>>
    /\ shown = <<>>
    /\ step = "page"

(* a variant that also reports a code whose reward differs from the cached one *)
new_codes_of_changed(cs, d) ==
    LET Fresh(x) == ~(\E i \in DOMAIN d : d[i].c = x.c /\ d[i].p = x.p)
        kept == SelectSeq(cs, Fresh)
    IN  [i \in 1..Len(kept) |-> kept[i].c]

(* [c for c, p in codes if c not in cached] *)
new_codes_of(cs, d) ==
    LET Fresh(x) == ~has_key(d, x.c)
        kept == SelectSeq(cs, Fresh)
    IN  [i \in 1..Len(kept) |-> kept[i].c]

(* a variant that reports an empty result as an error *)
ui_of_error(cs) == IF cs # <<>> THEN "success" ELSE "error"

(* lines 121-133: what the page shows once the cache is saved *)
ui_of(cs) == IF cs # <<>> THEN "success" ELSE "warning"

display_of(cs) == IF cs # <<>> THEN display_sorted(cs, selectbox(SortOptions)) ELSE <<>>

(* One press of the button, run without interruption. *)
FetchAction(s) ==
    /\ pc[s] \in {"idle", "done", "crashed"}
    /\ \E page \in HandlerPages :
         LET cs == fetch_codes(page)
             ld == load_cache(file)
         IN  /\ status' = [status EXCEPT ![s] = page.kind]
             /\ codes' = [codes EXCEPT ![s] = cs]
             /\ IF ld.ok
                THEN /\ cached' = [cached EXCEPT ![s] = ld.dict]
                     /\ new_codes' = [new_codes EXCEPT ![s] = new_codes_of(cs, ld.dict)]
                     /\ file' = save_cache(file, dict_of(cs))
                     /\ lastWriter' = s
                     /\ display' = [display EXCEPT ![s] = display_of(cs)]
                     /\ ui' = [ui EXCEPT ![s] = ui_of(cs)]
                     /\ pc' = [pc EXCEPT ![s] = "done"]
                ELSE /\ cached' = [cached EXCEPT ![s] = <<>>]
                     /\ new_codes' = [new_codes EXCEPT ![s] = <<>>]
                     /\ display' = [display EXCEPT ![s] = <<>>]
                     /\ ui' = [ui EXCEPT ![s] = "exception"]
                     /\ pc' = [pc EXCEPT ![s] = "crashed"]
                     /\ UNCHANGED <<file, lastWriter>>
    /\ UNCHANGED pureVars

Init == InitPureIdle /\ InitHandlerIdle

Next == FetchAction("s1")

Spec == Init /\ [][Next]_vars

---------------------------------------------------------------------------
(* Two sessions pressing the button once each, with no lock on the file:   *)
(* the handler split at its accesses to the cache file.                    *)

(* lines 115-116: fetch_codes(), then load_cache() *)
ClickLoad(s) ==
    /\ pc[s] = "idle"
    /\ \E page \in HandlerPages :
         LET cs == fetch_codes(page)
             ld == load_cache(file)
         IN  /\ status' = [status EXCEPT ![s] = page.kind]
             /\ codes' = [codes EXCEPT ![s] = cs]
             /\ IF ld.ok
                THEN /\ cached' = [cached EXCEPT ![s] = ld.dict]
                     /\ pc' = [pc EXCEPT ![s] = "loaded"]
                     /\ ui' = ui
                ELSE /\ cached' = cached
                     /\ pc' = [pc EXCEPT ![s] = "crashed"]
                     /\ ui' = [ui EXCEPT ![s] = "exception"]
    /\ UNCHANGED <<file, lastWriter, new_codes, display, pureVars>>

(* lines 118-119 and 105: the diff, then open(CACHE_FILE, "w") *)
DiffOpen(s) ==
    /\ pc[s] = "loaded"
    /\ new_codes' = [new_codes EXCEPT ![s] = new_codes_of(codes[s], cached[s])]
    /\ file' = open_w(file)
    /\ pc' = [pc EXCEPT ![s] = "opened"]
    /\ UNCHANGED <<lastWriter, status, codes, cached, display, ui, pureVars>>

(* line 106 and the end of the with block, then lines 121-133 *)
WriteRender(s) ==
    /\ pc[s] = "opened"
    /\ file' = write_close(file, json_dumps(dict_of(codes[s])))
    /\ lastWriter' = s
    /\ display' = [display EXCEPT ![s] = display_of(codes[s])]
    /\ ui' = [ui EXCEPT ![s] = ui_of(codes[s])]
    /\ pc' = [pc EXCEPT ![s] = "done"]
    /\ UNCHANGED <<status, codes, cached, new_codes, pureVars>>

(* a cache file left by an earlier run of the handler, or none *)
InitFiles ==
    {AbsentFile} \cup {save_cache(AbsentFile, dict_of(fetch_codes(p))) : p \in HandlerPages}

InitConc ==
    /\ InitPureIdle
    /\ file \in InitFiles
    /\ lastWriter = "none"
    /\ pc = [s \in Sessions |-> "idle"]
    /\ status = [s \in Sessions |-> "none"]
    /\ codes = [s \in Sessions |-> <<>>]
    /\ cached = [s \in Sessions |-> <<>>]
    /\ new_codes = [s \in Sessions |-> <<>>]
    /\ display = [s \in Sessions |-> <<>>]
    /\ ui = [s \in Sessions |-> "none"]

NextConc == \E s \in Sessions : ClickLoad(s) \/ DiffOpen(s) \/ WriteRender(s)

SpecConc == InitConc /\ [][NextConc]_vars

---------------------------------------------------------------------------
(* Properties.                                                             *)

AllRows == CoreRows \cup RichRows

KeySet(d) == {d[i].c : i \in DOMAIN d}

AsMap(d) == {<<d[i].c, d[i].p>> : i \in DOMAIN d}

CodeA == <<"A","A","A","A","A","A">>

CodeB == <<"B","B","B","B","B","B">>

(* the code a row yields: the match of the code pattern in its first cell *)
RowCodeOf ==
    [r \in AllRows |->
        IF Len(r) = 0 THEN NoMatch ELSE code_pattern_search(upper(cell_text(r, 1)))]

(* the date a text denotes: its footnote markers and outer white space      *)
(* stripped, read in the first of the three formats that fits               *)
DateOfText(txt) ==
    LET clean == strip(strip_footnotes(txt))
        ok == {i \in DOMAIN date_formats : strptime(clean, date_formats[i]) # ValueError}
    IN  IF ok = {} THEN ValueError
        ELSE strptime(clean, date_formats[CHOOSE i \in ok : \A j \in ok : i <= j])

RowDate == [r \in AllRows |-> DateOfText(cell_text(r, 3))]

RowSaysExpired == [r \in AllRows |-> Contains(lower(cell_text(r, 3)), Expired)]

RowExpiry == [r \in AllRows |-> parse_date(cell_text(r, 3))]

(* the reward a row states: 0 when the reward pattern does not match *)
RowReward ==
    [r \in AllRows |->
        LET mp == poly_pattern_search(cell_text(r, 2))
        IN  IF mp = NoMatch THEN 0 ELSE int(mp)]

TableFetched == step # "page" /\ rows.kind = "table"

RowIndexes == DOMAIN rows.rows

RowAt(k) == rows.rows[k]

(* the rows that passed the code, expiry and reward filters of the loop *)
Passing(k) == RowCodes[RowAt(k)] # <<>>

MaxOf(S) == CHOOSE x \in S : \A y \in S : y <= x

MinOf(S) == CHOOSE x \in S : \A y \in S : x <= y

(* C1: after a fetch action that got a table, the persisted cache, read    *)
(* back, is exactly the code -> reward mapping of that action's result:    *)
(* every code of the result with its reward, and nothing else.             *)
C1_CacheIsLatestResult ==
    \A s \in Sessions :
        (pc[s] = "done" /\ lastWriter = s /\ status[s] = "table") =>
            /\ file.exists
            /\ load_cache(file).ok
            /\ AsMap(load_cache(file).dict) = AsMap(codes[s])

(* an action whose loaded cache held a code that its result does not hold *)
C1_Witness ==
    /\ pc["s1"] = "done"
    /\ status["s1"] = "table"
    /\ codes["s1"] # <<>>
    /\ KeySet(cached["s1"]) \ KeySet(codes["s1"]) # {}
    /\ KeySet(load_cache(file).dict) = KeySet(codes["s1"])

(* C2: in every fetch action the loaded mapping is the cache as the action *)
(* before left it, and new_codes is, in result order, exactly the codes of *)
(* the result that are not keys of it, whatever their rewards.             *)
C2_NewCodesDiff ==
    [][ pc'["s1"] = "done" =>
          LET before == IF pc["s1"] = "done" THEN AsMap(codes["s1"]) ELSE {}
              keys   == {e[1] : e \in before}
              Fresh(x) == x.c \notin keys
              fresh  == SelectSeq(codes'["s1"], Fresh)
          IN  /\ AsMap(cached'["s1"]) = before
              /\ new_codes'["s1"] = [i \in 1..Len(fresh) |-> fresh[i].c] ]_vars

(* the cache held A with another reward: only B is new *)
C2_Witness ==
    /\ pc["s1"] = "done"
    /\ AsMap(cached["s1"]) = {<<CodeA, 50>>}
    /\ AsMap(codes["s1"]) = {<<CodeA, 100>>, <<CodeB, 50>>}
    /\ new_codes["s1"] = <<CodeB>>

(* C3: the result of fetch_codes has at most one entry per code, and the   *)
(* reward of an entry is the maximum reward over the rows of that code     *)
(* that passed the filters.                                                *)
C3_MaxPerCode ==
    TableFetched =>
        /\ \A i, j \in DOMAIN result : result[i].c = result[j].c => i = j
        /\ \A i \in DOMAIN result :
              LET mine == {k \in RowIndexes :
                              Passing(k) /\ RowCodeOf[RowAt(k)] = result[i].c}
              IN  /\ mine # {}
                  /\ result[i].p = MaxOf({RowReward[RowAt(k)] : k \in mine})

(* A passes with 50 and again with 100, and an expired row of A states more *)
C3_Witness ==
    /\ TableFetched
    /\ rows.rows = << <<CodeA, <<"5","0"," ","P","o","l","y","c","h","r","o","m","e">>, <<>> >>,
                      <<CodeA, <<"1","0","0"," ","p","o","l","y","c","h","r","o","m","e","s">>, <<"E","x","p","i","r","e","d">> >>,
                      <<CodeA, <<"0"," ","P","o","l","y","c","h","r","o","m","e">>, <<>> >> >>
    /\ result = <<Pair(CodeA, 50)>>

(* the order of a sequence of entries: rewards never increase, and of two  *)
(* entries with the same reward the one whose code comes first goes first  *)
OrderedBy(seq, first) ==
    \A i, j \in DOMAIN seq :
        i < j => \/ seq[i].p > seq[j].p
                 \/ seq[i].p = seq[j].p /\ first[seq[i].c] < first[seq[j].c]

(* the first row, among all rows of the page, that yields each code *)
FirstRowOfCode ==
    [c \in {RowCodeOf[RowAt(k)] : k \in RowIndexes} |->
        MinOf({k \in RowIndexes : RowCodeOf[RowAt(k)] = c})]

(* the first row that yields each code among the rows that passed the filters *)
FirstPassingRowOfCode ==
    [c \in {RowCodeOf[RowAt(k)] : k \in {n \in RowIndexes : Passing(n)}} |->
        MinOf({k \in RowIndexes : Passing(k) /\ RowCodeOf[RowAt(k)] = c})]

(* C4 as stated: the result of fetch_codes and the Descending display are  *)
(* sorted by reward, non-increasing, and entries with equal reward keep    *)
(* the order in which their codes first appeared in the input rows.        *)
C4_OrderByFirstAppearance ==
    TableFetched =>
        /\ OrderedBy(result, FirstRowOfCode)
        /\ step = "shown" => OrderedBy(shown, FirstRowOfCode)

(* C4, amended: entries with equal reward keep the order in which their    *)
(* codes first appeared among the rows that passed the filters.            *)
C4_OrderByFirstPassingRow ==
    TableFetched =>
        /\ OrderedBy(result, FirstPassingRowOfCode)
        /\ step = "shown" => shown = result /\ OrderedBy(shown, FirstPassingRowOfCode)

(* two entries tie, and the code shown second has an earlier, filtered row *)
C4_Witness ==
    /\ TableFetched
    /\ step = "shown"
    /\ \E i, j \in DOMAIN shown :
          /\ i < j
          /\ shown[i].p = shown[j].p
          /\ FirstRowOfCode[shown[j].c] < FirstRowOfCode[shown[i].c]

(* C5: a code is in the result of fetch_codes if and only if some row      *)
(* yields it whose expiry text does not contain "expired", whose expiry is *)
(* not a date earlier than today, and whose matched reward is positive;    *)
(* every reward of the result is positive.                                 *)
C5_ResultIffQualifyingRow ==
    TableFetched =>
        /\ \A c \in (KeySet(result) \cup {RowCodeOf[RowAt(k)] : k \in RowIndexes}) \ {NoMatch} :
              c \in KeySet(result) <=>
                  \E k \in RowIndexes :
                      /\ RowCodeOf[RowAt(k)] = c
                      /\ ~RowSaysExpired[RowAt(k)]
                      /\ ~(RowDate[RowAt(k)] # ValueError /\ DateLess(RowDate[RowAt(k)], Today))
                      /\ RowReward[RowAt(k)] > 0
        /\ \A i \in DOMAIN result : result[i].p > 0

(* C6: when the request fails or the page has no table, fetch_codes        *)
(* returns the empty list and the action ends with the "no active codes"   *)
(* warning, not with an error.                                             *)
C6_FailureIsWarning ==
    \A s \in Sessions :
        (pc[s] # "idle" /\ status[s] \in {"http_error", "no_table"}) =>
            /\ codes[s] = <<>>
            /\ pc[s] = "done"
            /\ ui[s] = "warning"

(* a failed request over a cache that held codes *)
C6_Witness ==
    /\ pc["s1"] = "done"
    /\ status["s1"] = "http_error"
    /\ cached["s1"] # <<>>
    /\ ui["s1"] = "warning"

(* C7: for an expiry text without "expired" that, its footnote markers     *)
(* stripped, is a date in one of the three formats, parse_date returns     *)
(* that date; so a row with such a date earlier than today yields no entry.*)
C7_DateInAnyFormatIsParsed ==
    TableFetched =>
        \A k \in RowIndexes :
            (~RowSaysExpired[RowAt(k)] /\ RowDate[RowAt(k)] # ValueError) =>
                /\ RowExpiry[RowAt(k)] = RowDate[RowAt(k)]
                /\ DateLess(RowDate[RowAt(k)], Today) => ~Passing(k)

(* C8: a fetch action that finds a cache file it cannot read takes the     *)
(* prior mapping to be empty and goes on to the diff and the save.         *)
C8_UnreadableCacheIsEmpty ==
    [][ \A s \in Sessions :
          (pc[s] = "idle" /\ pc'[s] # "idle" /\ ~load_cache(file).ok) =>
              /\ pc'[s] = "loaded"
              /\ cached'[s] = <<>> ]_vars

(* C9: once both concurrent actions have finished, the cache is the whole  *)
(* result set of the action that saved last.                               *)
C9_LastWriterWins ==
    (\A s \in Sessions : pc[s] = "done") =>
        /\ load_cache(file).ok
        /\ AsMap(load_cache(file).dict) = AsMap(codes[lastWriter])

(* C10: an action whose result is empty leaves the cache holding the empty *)
(* mapping, and the action after it reports every code of its result as    *)
(* new.                                                                    *)
C10_EmptyResultClearsCache ==
    [][ (pc["s1"] = "done" /\ codes["s1"] = <<>>) =>
          /\ file.exists
          /\ load_cache(file).ok
          /\ load_cache(file).dict = <<>>
          /\ pc'["s1"] = "done" =>
                new_codes'["s1"] = [i \in DOMAIN codes'["s1"] |-> codes'["s1"][i].c] ]_vars

(* a failed fetch emptied a cache that held codes *)
C10_Witness ==
    /\ pc["s1"] = "done"
    /\ status["s1"] \in {"http_error", "no_table"}
    /\ cached["s1"] # <<>>
    /\ file = [exists |-> TRUE, data |-> <<"{","}">>]

=============================================================================
